---- MODULE Spec2Model ----
(***************************************************************************)
(* Model of h3-rs (src/src/lib.rs): the typed wrapper around the H3 grid   *)
(* engine.  The wrapper's functions are translated line by line; the       *)
(* engine (the extern "C" block) is a set of possible answers per call.    *)
(*                                                                         *)
(* Representation                                                          *)
(*   u64 identifiers : naturals, 16 * cell + resolution (0 is the sentinel)*)
(*   f64             : fixed point; coordinates are in hundredths and the  *)
(*                     degree/radian factors in 1/FScale, so that a unit   *)
(*                     conversion is a real multiplication                 *)
(*   &str / String   : sequences of bytes                                  *)
(*   Result<T, Error>: records tagged "Ok" / "Err"; a panic is "Panic"     *)
(***************************************************************************)
EXTENDS Integers, Sequences, FiniteSets, TLC

VARIABLES held, last

vars == <<held, last>>

(***************************************************************************)
(* Bounds of the model.                                                    *)
(***************************************************************************)
MaxStrLen == 2
MaxText == 2
MaxDist == 1
CellsPerRes == 1

(***************************************************************************)
(* Program constants.                                                      *)
(***************************************************************************)
MAX_CELL_BNDRY_VERTS == 10
BUF_LEN == 17
NUL == 0
FScale == 100 * 1000
DEG_TO_RAD == 1745
RAD_TO_DEG == 5729578
MAX_H3_RES == 15

\* f64 multiplication by a factor given in 1/FScale units, rounded to nearest.
FMul(x, k) == (x * k + FScale \div 2) \div FScale

\* "<invalid>"
INVALID_LITERAL == <<60, 105, 110, 118, 97, 108, 105, 100, 62>>

(***************************************************************************)
(* Values.                                                                 *)
(***************************************************************************)
H3Index(h) == [raw |-> h]

Ok(v) == [tag |-> "Ok", value |-> v]
InvalidIndex(h) == [tag |-> "Err", kind |-> "InvalidIndex", value |-> h]
InvalidString(s) == [tag |-> "Err", kind |-> "InvalidString", value |-> s]
FailedConversion == [tag |-> "Err", kind |-> "FailedConversion"]
IncompatibleIndexes(l, r) ==
    [tag |-> "Err", kind |-> "IncompatibleIndexes", left |-> l, right |-> r]
FmtError == [tag |-> "Err", kind |-> "fmt::Error"]
Panic == [tag |-> "Panic"]
Pending == [tag |-> "Pending"]

GeoCoord_new(lat, lon) == [lat |-> lat, lon |-> lon]
GeoCoordInternal_new(lat, lon) == [lat |-> lat, lon |-> lon]

\* One engine call: the function, its arguments, its answer.
Call(fn, arg, ret) == [fn |-> fn, arg |-> arg, ret |-> ret]

(***************************************************************************)
(* The grid engine (extern "C", lib.rs 12-33).  Each definition is the set *)
(* of answers the engine may give to one call; the wrapper must be right   *)
(* for each of them.  What is fixed is the engine's contract: 0 is never a *)
(* valid identifier; geoToH3 and h3ToParent answer 0 for a resolution      *)
(* outside 0..MAX_H3_RES (lib.rs 474-475), h3ToParent also for one finer   *)
(* than the identifier's; h3Distance answers a negative number for         *)
(* identifiers of differing resolutions (lib.rs 199-201).  The resolution  *)
(* of an identifier is a bit field of the identifier, here its low four    *)
(* bits; every resolution 0..MAX_H3_RES has the cells 1..CellsPerRes, so   *)
(* that geoToH3 can succeed at each of them (lib.rs 415-418).              *)
(***************************************************************************)
h3GetResolution(h) == h % (MAX_H3_RES + 1)

\* The identifiers of the cells at resolution res.
CellsAt(res) == {(MAX_H3_RES + 1) * c + res : c \in 1 .. CellsPerRes}

\* The resolutions the callers of the model work at, and the u64 values they
\* pass to H3Index::new: the sentinel and the cells at these resolutions.
SampleRes == {0, 5, 15}

RawValues == {0} \cup UNION {CellsAt(r) : r \in SampleRes}

h3IsValid(h) == IF h = 0 THEN {0} ELSE {0, 1}

geoToH3(g, res) ==
    IF res \notin 0 .. MAX_H3_RES
    THEN {0}
    ELSE {0} \cup CellsAt(res)

stringToH3(s) == RawValues

h3ToParent(h, parentRes) ==
    IF parentRes \notin 0 .. MAX_H3_RES \/ parentRes > h3GetResolution(h)
    THEN {0}
    ELSE IF parentRes = h3GetResolution(h)
    THEN {h}
    ELSE CellsAt(parentRes)

h3Distance(origin, h) ==
    IF h3GetResolution(origin) # h3GetResolution(h)
    THEN {-1}
    ELSE {-1} \cup (0 .. MaxDist)

h3ToGeo(h) == {GeoCoordInternal_new(117 + h, -294), GeoCoordInternal_new(0, 0)}

h3GetBaseCell(h) == {6, 28}

h3IsPentagon(h) == {0, 1}

h3IsResClassIII(h) == {h3GetResolution(h) % 2}

\* h3ToGeoBoundary fills the first num_verts entries of the caller's buffer
\* and leaves the others as the caller initialised them.
BoundaryVertex(h, i) == GeoCoordInternal_new(100 + 10 * i + h, 7 * i - 300)

h3ToGeoBoundary(h, gp) ==
    {[num_verts |-> n,
      verts |-> [i \in 0 .. MAX_CELL_BNDRY_VERTS - 1 |->
                    IF i < n THEN BoundaryVertex(h, i) ELSE gp.verts[i]]]
        : n \in 0 .. MAX_CELL_BNDRY_VERTS}

\* h3ToString writes into the caller's sz-byte buffer: a text of at most
\* MaxText bytes followed by the buffer's NUL bytes, or sz bytes of text.
\* The bytes are NUL, "8", and 0xC3 0xA9 (valid UTF-8 only as this pair).
TextBytes == {0, 56, 195, 169}

Prefixes == UNION {[1 .. n -> TextBytes] : n \in 0 .. MaxText}

h3ToString(h, buf, sz) ==
    {[i \in 1 .. sz |-> IF i <= Len(p) THEN p[i] ELSE buf[i]] : p \in Prefixes}
        \cup {[i \in 1 .. sz |-> 56]}

(***************************************************************************)
(* Library behaviour the wrapper relies on.                                *)
(***************************************************************************)
\* CString::new: refuses a text that holds a NUL byte anywhere.
CString_new(s) ==
    IF \E i \in 1 .. Len(s) : s[i] = NUL
    THEN [tag |-> "Err"]
    ELSE [tag |-> "Ok", value |-> s]

\* UTF-8 well-formedness of b from position i on.
RECURSIVE Utf8From(_, _)
Utf8From(b, i) ==
    LET n == Len(b)
        Cont(j, lo, hi) == j <= n /\ b[j] >= lo /\ b[j] <= hi
    IN  IF i > n THEN TRUE
        ELSE IF b[i] < 128 THEN Utf8From(b, i + 1)
        ELSE IF b[i] >= 194 /\ b[i] <= 223
        THEN Cont(i + 1, 128, 191) /\ Utf8From(b, i + 2)
        ELSE IF b[i] >= 224 /\ b[i] <= 239
        THEN /\ Cont(i + 1, IF b[i] = 224 THEN 160 ELSE 128,
                            IF b[i] = 237 THEN 159 ELSE 191)
             /\ Cont(i + 2, 128, 191)
             /\ Utf8From(b, i + 3)
        ELSE IF b[i] >= 240 /\ b[i] <= 244
        THEN /\ Cont(i + 1, IF b[i] = 240 THEN 144 ELSE 128,
                            IF b[i] = 244 THEN 143 ELSE 191)
             /\ Cont(i + 2, 128, 191)
             /\ Cont(i + 3, 128, 191)
             /\ Utf8From(b, i + 4)
        ELSE FALSE

\* String::from_utf8
String_from_utf8(b) ==
    IF Utf8From(b, 1) THEN [tag |-> "Ok", value |-> b] ELSE [tag |-> "Err"]

\* fmt::Write::write_str on the sink of a formatter: a String takes every
\* text, a failing sink none, a bounded sink a text that fits its room.
write_str(f, s) ==
    CASE f.kind = "String" -> TRUE
      [] f.kind = "Failing" -> FALSE
      [] f.kind = "Bounded" -> Len(s) <= f.room

\* The text up to its first c, as a C string ends.
RECURSIVE cut_at_first(_, _)
cut_at_first(s, c) ==
    IF s = <<>> \/ s[1] = c
    THEN <<>>
    ELSE <<s[1]>> \o cut_at_first(SubSeq(s, 2, Len(s)), c)

\* str::trim_end_matches(c)
RECURSIVE trim_end_matches(_, _)
trim_end_matches(s, c) ==
    IF s = <<>> \/ s[Len(s)] # c
    THEN s
    ELSE trim_end_matches(SubSeq(s, 1, Len(s) - 1), c)

(***************************************************************************)
(* The wrapper.  Every function takes its inputs and the engine's answer   *)
(* and gives the engine calls it made and what it returned.                *)
(***************************************************************************)
\* Variant of H3Index::new: the error reports the predicate's answer, not h.
H3Index_new_reports_answer(h, valid) ==
    LET calls == <<Call("h3IsValid", <<h>>, valid)>>
    IN  IF valid = 0
        THEN [calls |-> calls, result |-> InvalidIndex(valid)]
        ELSE [calls |-> calls, result |-> Ok(H3Index(h))]

\* lib.rs 58-67
H3Index_new(h, valid) ==
    LET calls == <<Call("h3IsValid", <<h>>, valid)>>
    IN  IF valid = 0
        THEN [calls |-> calls, result |-> InvalidIndex(h)]
        ELSE [calls |-> calls, result |-> Ok(H3Index(h))]

\* Variant of H3Index::from_str: the text goes to the parser unchecked.
H3Index_from_str_unchecked(s, h) ==
    LET calls == <<Call("stringToH3", <<s>>, h)>>
    IN  IF h = 0
        THEN [calls |-> calls, result |-> InvalidString(s)]
        ELSE [calls |-> calls, result |-> Ok(H3Index(h))]

\* lib.rs 82-103
H3Index_from_str(s, h) ==
    LET c_str == CString_new(s)
    IN  IF c_str.tag = "Err"
        THEN [calls |-> <<>>, result |-> InvalidString(s)]
        ELSE LET calls == <<Call("stringToH3", <<c_str.value>>, h)>>
             IN  IF h = 0
                 THEN [calls |-> calls, result |-> InvalidString(s)]
                 ELSE [calls |-> calls, result |-> Ok(H3Index(h))]

\* lib.rs 270-272
GeoCoordInternal_to_deg(self) ==
    GeoCoord_new(FMul(self.lat, RAD_TO_DEG), FMul(self.lon, RAD_TO_DEG))

\* Variant of GeoCoord::to_radians: the degrees are passed on unconverted.
GeoCoord_to_radians_unconverted(self) ==
    GeoCoordInternal_new(self.lat, self.lon)

\* lib.rs 304-306
GeoCoord_to_radians(self) ==
    GeoCoordInternal_new(FMul(self.lat, DEG_TO_RAD), FMul(self.lon, DEG_TO_RAD))

\* lib.rs 116-122
H3Index_to_geo(self, geo) ==
    [calls |-> <<Call("h3ToGeo", <<self.raw>>, geo)>>,
     result |-> GeoCoordInternal_to_deg(geo)]

\* lib.rs 336-341
GeoBoundaryInternal_new ==
    [num_verts |-> 0,
     verts |-> [i \in 0 .. MAX_CELL_BNDRY_VERTS - 1 |-> GeoCoordInternal_new(0, 0)]]

\* lib.rs 345-347: the loop from position i on; verts and reads so far.
RECURSIVE convert_loop(_, _, _, _)
convert_loop(self, i, verts, reads) ==
    IF i >= self.num_verts
    THEN [tag |-> "Ok", verts |-> verts, reads |-> reads]
    ELSE IF i >= MAX_CELL_BNDRY_VERTS
    THEN [tag |-> "Panic", verts |-> verts, reads |-> reads]
    ELSE convert_loop(self, i + 1,
                      Append(verts, GeoCoordInternal_to_deg(self.verts[i])),
                      reads \cup {i})

\* Variant of GeoBoundaryInternal::convert: the whole buffer is converted.
GeoBoundaryInternal_convert_all(self) ==
    convert_loop([self EXCEPT !.num_verts = MAX_CELL_BNDRY_VERTS], 0, <<>>, {})

\* lib.rs 343-349; a negative count overflows the capacity of the Vec.
GeoBoundaryInternal_convert(self) ==
    IF self.num_verts < 0
    THEN [tag |-> "Panic", verts |-> <<>>, reads |-> {}]
    ELSE convert_loop(self, 0, <<>>, {})

\* lib.rs 131-137
H3Index_to_geo_boundary(self, gb) ==
    LET out == GeoBoundaryInternal_convert(gb)
    IN  [calls |-> <<Call("h3ToGeoBoundary", <<self.raw>>, gb)>>,
         result |-> [tag |-> out.tag, verts |-> out.verts],
         reads |-> out.reads]

\* Variant of H3Index::resolution: the answer of the previous call is kept
\* and returned again.
H3Index_resolution_cached(self, r) ==
    [calls |-> <<Call("h3GetResolution", <<self.raw>>, r)>>,
     result |-> IF last.op = "resolution" THEN last.result ELSE r]

\* lib.rs 150-152
H3Index_resolution(self, r) ==
    [calls |-> <<Call("h3GetResolution", <<self.raw>>, r)>>, result |-> r]

\* lib.rs 165-167
H3Index_base_cell(self, b) ==
    [calls |-> <<Call("h3GetBaseCell", <<self.raw>>, b)>>, result |-> b]

\* lib.rs 180-182
H3Index_is_res_class_3(self, c) ==
    [calls |-> <<Call("h3IsResClassIII", <<self.raw>>, c)>>, result |-> (c # 0)]

\* lib.rs 195-197
H3Index_is_pentagon(self, p) ==
    [calls |-> <<Call("h3IsPentagon", <<self.raw>>, p)>>, result |-> (p # 0)]

\* Variant of H3Index::distance: the operands of the error are exchanged.
H3Index_distance_swapped(self, other, d) ==
    LET calls == <<Call("h3Distance", <<self.raw, other.raw>>, d)>>
    IN  IF d < 0
        THEN [calls |-> calls, result |-> IncompatibleIndexes(other, self)]
        ELSE [calls |-> calls, result |-> Ok(d)]

\* lib.rs 208-221
H3Index_distance(self, other, d) ==
    LET calls == <<Call("h3Distance", <<self.raw, other.raw>>, d)>>
    IN  IF d < 0
        THEN [calls |-> calls, result |-> IncompatibleIndexes(self, other)]
        ELSE [calls |-> calls, result |-> Ok(d)]

\* Variant of H3Index::parent: the engine's answer is wrapped unchecked.
H3Index_parent_unchecked(self, res, h) ==
    [calls |-> <<Call("h3ToParent", <<self.raw, res>>, h)>>,
     result |-> Ok(H3Index(h))]

\* lib.rs 230-240
H3Index_parent(self, res, h) ==
    LET calls == <<Call("h3ToParent", <<self.raw, res>>, h)>>
    IN  IF h = 0
        THEN [calls |-> calls, result |-> FailedConversion]
        ELSE [calls |-> calls, result |-> Ok(H3Index(h))]

\* lib.rs 254: write!(f, "{}", s) hands s to the sink of the formatter f in
\* one write_str, and its result is the result of fmt.  Ok(s): s was written.
write(f, s) ==
    IF write_str(f, s) THEN Ok(s) ELSE FmtError

\* Variant of Display: the buffer is read as a C string, up to its first NUL.
H3Index_fmt_c_string(self, f, buf, text) ==
    LET res == String_from_utf8(text)
        s == IF res.tag = "Ok" THEN cut_at_first(res.value, NUL) ELSE INVALID_LITERAL
    IN  [calls |-> <<Call("h3ToString", <<self.raw, Len(buf)>>, text)>>,
         result |-> write(f, s)]

\* lib.rs 243-256; text is what h3ToString left in the 17-byte buffer.
H3Index_fmt(self, f, buf, text) ==
    LET res == String_from_utf8(text)
        s == IF res.tag = "Ok"
             THEN trim_end_matches(res.value, NUL)
             ELSE INVALID_LITERAL
    IN  [calls |-> <<Call("h3ToString", <<self.raw, Len(buf)>>, text)>>,
         result |-> write(f, s)]

\* lib.rs 274-276
GeoCoordInternal_to_h3(self, res, h) ==
    [calls |-> <<Call("geoToH3", <<self, res>>, h)>>, index |-> H3Index(h)]

\* Variant of GeoCoord::to_h3: the sentinel is returned as a success.
GeoCoord_to_h3_unchecked(index) == Ok(index)

\* lib.rs 321-324
GeoCoord_to_h3_check(index) ==
    IF index.raw = 0 THEN FailedConversion ELSE Ok(index)

(***************************************************************************)
(* Inputs of the callers.                                                  *)
(***************************************************************************)
StrBytes == {NUL, 56}

Strings == UNION {[1 .. n -> StrBytes] : n \in 0 .. MaxStrLen}

Coords == {GeoCoord_new(6715, -16839), GeoCoord_new(0, 0)}

ResArgs == {-1, 17} \cup SampleRes

\* The formatters Display is used with: over a String (format!, to_string),
\* over a sink that fails, over a sink with room for 8 bytes.
Formatters ==
    {[kind |-> "String"], [kind |-> "Failing"], [kind |-> "Bounded", room |-> 8]}

(***************************************************************************)
(* State.  held: the Index in the caller's variable (empty or one value;   *)
(* with the Index just returned the caller has two to pass on).  last: the *)
(* operation that ran last (or is running): its inputs, the engine calls   *)
(* it made, the Index values in its frame, the buffer positions it read    *)
(* and what it returned.                                                   *)
(***************************************************************************)
Op(op, args, calls, local, reads, result) ==
    [op |-> op, args |-> args, calls |-> calls, local |-> local,
     reads |-> reads, result |-> result, returned |-> TRUE]

Running(op, args, calls, local) ==
    [op |-> op, args |-> args, calls |-> calls, local |-> local,
     reads |-> {}, result |-> Pending, returned |-> FALSE]

Finished(op, args, out) == Op(op, args, out.calls, <<>>, {}, out.result)

Idle == last.returned

\* The operations that return Result<H3Index, Error>.
ReturnsIndex == {"new", "from_str", "to_h3", "parent"}

\* The Index values the caller can pass to an operation: the ones it owns and
\* the one the last operation returned.
Available ==
    held \cup (IF last.returned /\ last.op \in ReturnsIndex /\ last.result.tag = "Ok"
               THEN {last.result.value} ELSE {})

Init ==
    /\ held = {}
    /\ last = Op("none", <<>>, <<>>, <<>>, {}, [tag |-> "None"])

New ==
    /\ Idle
    /\ \E h \in RawValues : \E valid \in h3IsValid(h) :
           last' = Finished("new", <<h>>, H3Index_new(h, valid))
    /\ UNCHANGED held

FromStr ==
    /\ Idle
    /\ \E s \in Strings : \E h \in stringToH3(s) :
           last' = Finished("from_str", <<s>>, H3Index_from_str(s, h))
    /\ UNCHANGED held

\* GeoCoord::to_h3, line 320: the local index is bound.
ToH3Call ==
    /\ Idle
    /\ \E c \in Coords, res \in ResArgs :
           LET g == GeoCoord_to_radians(c)
           IN  \E h \in geoToH3(g, res) :
                   LET out == GeoCoordInternal_to_h3(g, res, h)
                   IN  last' = Running("to_h3", <<c, res>>, out.calls,
                                       <<out.index>>)
    /\ UNCHANGED held

\* GeoCoord::to_h3, lines 321-324.
ToH3Return ==
    /\ last.op = "to_h3" /\ ~last.returned
    /\ last' = Op("to_h3", last.args, last.calls, <<>>, {},
                  GeoCoord_to_h3_check(last.local[1]))
    /\ UNCHANGED held

ToGeo ==
    /\ Idle
    /\ \E self \in Available : \E geo \in h3ToGeo(self.raw) :
           last' = Finished("to_geo", <<self>>, H3Index_to_geo(self, geo))
    /\ UNCHANGED held

ToGeoBoundary ==
    /\ Idle
    /\ \E self \in Available :
           \E gb \in h3ToGeoBoundary(self.raw, GeoBoundaryInternal_new) :
               LET out == H3Index_to_geo_boundary(self, gb)
               IN  last' = Op("to_geo_boundary", <<self>>, out.calls, <<>>,
                              out.reads, out.result)
    /\ UNCHANGED held

Resolution ==
    /\ Idle
    /\ \E self \in Available :
           last' = Finished("resolution", <<self>>,
                            H3Index_resolution(self, h3GetResolution(self.raw)))
    /\ UNCHANGED held

BaseCell ==
    /\ Idle
    /\ \E self \in Available : \E b \in h3GetBaseCell(self.raw) :
           last' = Finished("base_cell", <<self>>, H3Index_base_cell(self, b))
    /\ UNCHANGED held

IsResClass3 ==
    /\ Idle
    /\ \E self \in Available : \E c \in h3IsResClassIII(self.raw) :
           last' = Finished("is_res_class_3", <<self>>,
                            H3Index_is_res_class_3(self, c))
    /\ UNCHANGED held

IsPentagon ==
    /\ Idle
    /\ \E self \in Available : \E p \in h3IsPentagon(self.raw) :
           last' = Finished("is_pentagon", <<self>>, H3Index_is_pentagon(self, p))
    /\ UNCHANGED held

Distance ==
    /\ Idle
    /\ \E self \in Available, other \in Available :
           \E d \in h3Distance(self.raw, other.raw) :
               last' = Finished("distance", <<self, other>>,
                                H3Index_distance(self, other, d))
    /\ UNCHANGED held

Parent ==
    /\ Idle
    /\ \E self \in Available, res \in ResArgs : \E h \in h3ToParent(self.raw, res) :
           last' = Finished("parent", <<self, res>>, H3Index_parent(self, res, h))
    /\ UNCHANGED held

Display ==
    /\ Idle
    /\ \E self \in Available, f \in Formatters :
           LET buf == [i \in 1 .. BUF_LEN |-> 0]
           IN  \E text \in h3ToString(self.raw, buf, BUF_LEN) :
                   last' = Finished("fmt", <<self, f>>,
                                    H3Index_fmt(self, f, buf, text))
    /\ UNCHANGED held

\* The caller binds the Index an operation returned to its variable, in
\* place of the Index the variable held.
Keep ==
    /\ last.op \in ReturnsIndex
    /\ last.returned /\ last.result.tag = "Ok"
    /\ held' = {last.result.value}
    /\ UNCHANGED last

\* The caller's variable goes out of scope.
Drop ==
    /\ Idle
    /\ \E i \in held : held' = held \ {i}
    /\ UNCHANGED last

Next ==
    \/ New
    \/ FromStr
    \/ ToH3Call
    \/ ToH3Return
    \/ ToGeo
    \/ ToGeoBoundary
    \/ Resolution
    \/ BaseCell
    \/ IsResClass3
    \/ IsPentagon
    \/ Distance
    \/ Parent
    \/ Display
    \/ Keep
    \/ Drop

Spec == Init /\ [][Next]_vars

(***************************************************************************)
(* Vocabulary of the properties.                                           *)
(***************************************************************************)
Did(op) == last.op = op /\ last.returned

Constructors == {"new", "from_str", "to_h3", "parent"}

\* The Index values that exist: owned by the caller, bound in the frame of
\* the running operation, or carried by what the last operation returned.
LiveIndexes ==
    held
    \cup {last.local[i] : i \in 1 .. Len(last.local)}
    \cup (IF last.returned /\ last.op \in Constructors /\ last.result.tag = "Ok"
          THEN {last.result.value} ELSE {})
    \cup (IF Did("distance") /\ last.result.tag = "Err"
          THEN {last.result.left, last.result.right} ELSE {})

\* The engine vouched for the raw value h in one of the calls: its validity
\* predicate accepted h, or a call that yields an identifier returned h # 0.
Vouched(h, calls) ==
    \E k \in 1 .. Len(calls) :
        \/ calls[k].fn = "h3IsValid" /\ calls[k].arg = <<h>> /\ calls[k].ret # 0
        \/ /\ calls[k].fn \in {"geoToH3", "stringToH3", "h3ToParent"}
           /\ calls[k].ret = h
           /\ h # 0

HasNul(s) == \E i \in 1 .. Len(s) : s[i] = 0

(***************************************************************************)
(* C1: every Index value that exists, the one bound inside a running       *)
(* operation included, wraps a nonzero value, and an Index an operation    *)
(* builds wraps a value the engine vouched for in that operation.          *)
(***************************************************************************)
C1_IndexInvariant ==
    /\ \A i \in LiveIndexes : i.raw # 0
    /\ \A i \in 1 .. Len(last.local) : Vouched(last.local[i].raw, last.calls)
    /\ (last.returned /\ last.op \in Constructors /\ last.result.tag = "Ok")
           => Vouched(last.result.value.raw, last.calls)

(***************************************************************************)
(* C2: H3Index::new(h) asks the validity predicate about h; it returns     *)
(* Ok(Index wrapping h) if and only if the answer is nonzero, and          *)
(* Err(InvalidIndex{value = h}) otherwise.                                 *)
(***************************************************************************)
C2_New ==
    Did("new") =>
        LET h == last.args[1]
        IN  /\ Len(last.calls) = 1
            /\ last.calls[1].fn = "h3IsValid"
            /\ last.calls[1].arg = <<h>>
            /\ (last.result.tag = "Ok") <=> (last.calls[1].ret # 0)
            /\ last.calls[1].ret # 0 => last.result = [tag |-> "Ok", value |-> [raw |-> h]]
            /\ last.calls[1].ret = 0 =>
                   last.result = [tag |-> "Err", kind |-> "InvalidIndex", value |-> h]

C2_Witness ==
    /\ Did("new")
    /\ last.args[1] # 0
    /\ last.calls[1].ret = 0
    /\ last.result.tag = "Err"
    /\ last.result.value = last.args[1]

(***************************************************************************)
(* C3: H3Index::from_str(s): with a NUL byte in s it returns               *)
(* Err(InvalidString{value = s}) and the parser is not called; otherwise   *)
(* the parser is called once on s, 0 gives Err(InvalidString{value = s}),  *)
(* a nonzero h gives Ok(Index wrapping h), and the validity predicate is   *)
(* not called.                                                             *)
(***************************************************************************)
C3_FromStr ==
    Did("from_str") =>
        LET s == last.args[1]
        IN  IF HasNul(s)
            THEN /\ last.calls = <<>>
                 /\ last.result = [tag |-> "Err", kind |-> "InvalidString", value |-> s]
            ELSE /\ Len(last.calls) = 1
                 /\ last.calls[1].fn = "stringToH3"
                 /\ last.calls[1].arg = <<s>>
                 /\ last.calls[1].ret = 0 =>
                        last.result = [tag |-> "Err", kind |-> "InvalidString", value |-> s]
                 /\ last.calls[1].ret # 0 =>
                        last.result = [tag |-> "Ok", value |-> [raw |-> last.calls[1].ret]]

C3_Witness ==
    /\ Did("from_str")
    /\ Len(last.args[1]) > 1
    /\ last.args[1][1] # 0
    /\ HasNul(last.args[1])
    /\ last.calls = <<>>
    /\ last.result.tag = "Err"

(***************************************************************************)
(* C4: GeoCoord::to_h3(res) hands the engine the coordinate multiplied by  *)
(* pi/180 and res, once; it returns Err(FailedConversion), which carries   *)
(* no value, exactly when the engine answers 0, as the engine does for a   *)
(* resolution outside 0..15, and Ok(Index wrapping the answer) otherwise.  *)
(***************************************************************************)
C4_ToH3 ==
    Did("to_h3") =>
        LET c == last.args[1]
            res == last.args[2]
            rad == [lat |-> (c.lat * DEG_TO_RAD + FScale \div 2) \div FScale,
                    lon |-> (c.lon * DEG_TO_RAD + FScale \div 2) \div FScale]
        IN  /\ Len(last.calls) = 1
            /\ last.calls[1].fn = "geoToH3"
            /\ last.calls[1].arg = <<rad, res>>
            /\ (last.calls[1].ret = 0) <=>
                   (last.result = [tag |-> "Err", kind |-> "FailedConversion"])
            /\ last.calls[1].ret # 0 =>
                   last.result = [tag |-> "Ok", value |-> [raw |-> last.calls[1].ret]]
            /\ res \notin 0 .. 15 => last.result.tag = "Err"

C4_Witness ==
    /\ Did("to_h3")
    /\ last.args[2] = 17
    /\ last.args[1].lat # 0
    /\ last.calls[1].arg[1].lat # last.args[1].lat
    /\ last.result.tag = "Err"

(***************************************************************************)
(* C5: H3Index::distance(a, b) returns Ok(d) only with d >= 0, d being the *)
(* engine's answer; a negative answer, as for two identifiers of differing *)
(* resolutions, gives Err(IncompatibleIndexes{left = a, right = b}).       *)
(***************************************************************************)
C5_Distance ==
    Did("distance") =>
        LET a == last.args[1]
            b == last.args[2]
            d == last.calls[1].ret
        IN  /\ Len(last.calls) = 1
            /\ last.calls[1].fn = "h3Distance"
            /\ last.calls[1].arg = <<a.raw, b.raw>>
            /\ d >= 0 => last.result = [tag |-> "Ok", value |-> d]
            /\ d < 0 =>
                   last.result = [tag |-> "Err", kind |-> "IncompatibleIndexes",
                                  left |-> a, right |-> b]
            /\ h3GetResolution(a.raw) # h3GetResolution(b.raw)
                   => last.result.tag = "Err"

C5_Witness ==
    /\ Did("distance")
    /\ h3GetResolution(last.args[1].raw) # h3GetResolution(last.args[2].raw)
    /\ last.result.tag = "Err"
    /\ last.result.left = last.args[1]
    /\ last.result.right = last.args[2]

(***************************************************************************)
(* C6: H3Index::parent(index, res) returns Err(FailedConversion) when the  *)
(* engine answers 0, which it does for a res finer than the resolution of  *)
(* the index and for a res outside 0..15; otherwise it returns             *)
(* Ok(Index wrapping the engine's nonzero answer).                         *)
(***************************************************************************)
C6_Parent ==
    Did("parent") =>
        LET self == last.args[1]
            res == last.args[2]
            h == last.calls[1].ret
        IN  /\ Len(last.calls) = 1
            /\ last.calls[1].fn = "h3ToParent"
            /\ last.calls[1].arg = <<self.raw, res>>
            /\ h = 0 => last.result = [tag |-> "Err", kind |-> "FailedConversion"]
            /\ h # 0 => last.result = [tag |-> "Ok", value |-> [raw |-> h]]
            /\ (res > h3GetResolution(self.raw) \/ res \notin 0 .. 15)
                   => last.result.tag = "Err"

C6_Witness ==
    /\ Did("parent")
    /\ last.args[2] \in 0 .. 15
    /\ last.args[2] > h3GetResolution(last.args[1].raw)
    /\ last.result.tag = "Err"

(***************************************************************************)
(* C7: H3Index::to_geo_boundary: with n the vertex count the engine        *)
(* reported, the result has exactly n vertices, vertex k is entry k of the *)
(* buffer multiplied by 180/pi, the entries read are exactly 0..n-1, and   *)
(* the result has at most 10 vertices.                                     *)
(***************************************************************************)
C7_Boundary ==
    Did("to_geo_boundary") =>
        LET gb == last.calls[1].ret
            n == gb.num_verts
            deg(x) == (x * RAD_TO_DEG + FScale \div 2) \div FScale
        IN  /\ last.result.tag = "Ok"
            /\ Len(last.result.verts) = n
            /\ \A k \in 1 .. n :
                   last.result.verts[k] = [lat |-> deg(gb.verts[k - 1].lat),
                                           lon |-> deg(gb.verts[k - 1].lon)]
            /\ last.reads = 0 .. (n - 1)
            /\ \A k \in last.reads : k < n
            /\ Len(last.result.verts) <= 10

C7_Witness ==
    /\ Did("to_geo_boundary")
    /\ last.calls[1].ret.num_verts = 6
    /\ Len(last.result.verts) = 6
    /\ last.result.verts[6].lat # last.calls[1].ret.verts[5].lat
    /\ last.reads = 0 .. 5

(***************************************************************************)
(* The text Display is to produce from the 17 bytes the engine wrote: the  *)
(* bytes up to the last one that is not NUL when they decode as UTF-8,     *)
(* "<invalid>" otherwise.                                                  *)
(***************************************************************************)
ExpectedText(text) ==
    IF String_from_utf8(text).tag = "Ok"
    THEN SubSeq(text, 1,
                CHOOSE n \in 0 .. Len(text) :
                    /\ \A k \in (n + 1) .. Len(text) : text[k] = 0
                    /\ n > 0 => text[n] # 0)
    ELSE <<60, 105, 110, 118, 97, 108, 105, 100, 62>>

SinkTakes(f, s) ==
    f.kind = "String" \/ (f.kind = "Bounded" /\ Len(s) <= f.room)

(***************************************************************************)
(* C8 as stated: formatting an Index always yields text, never an error:   *)
(* when the 17 bytes the engine wrote decode as UTF-8 the text is those    *)
(* bytes without the trailing NULs, and otherwise it is "<invalid>".       *)
(***************************************************************************)
C8_DisplayTotal ==
    Did("fmt") =>
        /\ last.result.tag = "Ok"
        /\ last.result.value = ExpectedText(last.calls[1].ret)

(***************************************************************************)
(* C8, amended: formatting an Index never fails because of what the engine *)
(* wrote.  When the sink of the formatter takes the text (a String always  *)
(* does), fmt yields text: the 17 bytes without the trailing NULs when     *)
(* they decode as UTF-8, "<invalid>" otherwise.  fmt returns an error only *)
(* when the sink refuses that text.                                        *)
(***************************************************************************)
C8_Display ==
    Did("fmt") =>
        LET f == last.args[2]
            text == last.calls[1].ret
        IN  /\ Len(text) = 17
            /\ IF SinkTakes(f, ExpectedText(text))
               THEN last.result = [tag |-> "Ok", value |-> ExpectedText(text)]
               ELSE last.result = [tag |-> "Err", kind |-> "fmt::Error"]
            /\ f.kind = "String" => last.result.tag = "Ok"

\* Into a String; the engine left NUL, "8" and padding: the NUL before the
\* "8" is kept.
C8_Witness ==
    /\ Did("fmt")
    /\ last.args[2].kind = "String"
    /\ last.calls[1].ret[1] = 0
    /\ last.calls[1].ret[2] = 56
    /\ last.calls[1].ret[3] = 0
    /\ last.result = [tag |-> "Ok", value |-> <<0, 56>>]

(***************************************************************************)
(* C9: new, from_str, to_h3, parent and distance call the engine at most   *)
(* once; a failure signal of the engine (0 from geoToH3, stringToH3 and    *)
(* h3ToParent, a negative h3Distance, 0 from h3IsValid) is returned as an  *)
(* error of the kind that belongs to the operation; no operation returns a *)
(* sentinel as a success, and none ends other than in Ok or Err.           *)
(***************************************************************************)
FailureSignal(c) ==
    \/ c.fn \in {"geoToH3", "stringToH3", "h3ToParent", "h3IsValid"} /\ c.ret = 0
    \/ c.fn = "h3Distance" /\ c.ret < 0

ErrorKind(op) ==
    CASE op = "new" -> "InvalidIndex"
      [] op = "from_str" -> "InvalidString"
      [] op = "to_h3" -> "FailedConversion"
      [] op = "parent" -> "FailedConversion"
      [] op = "distance" -> "IncompatibleIndexes"

C9_Propagation ==
    last.op \in Constructors \cup {"distance"} =>
        /\ Len(last.calls) <= 1
        /\ last.returned =>
               /\ last.result.tag \in {"Ok", "Err"}
               /\ (\E k \in 1 .. Len(last.calls) : FailureSignal(last.calls[k]))
                      => (last.result.tag = "Err" /\ last.result.kind = ErrorKind(last.op))
               /\ last.result.tag = "Err" =>
                      last.result.kind \in {"InvalidIndex", "InvalidString",
                                            "FailedConversion", "IncompatibleIndexes"}
               /\ (last.result.tag = "Ok" /\ last.op = "distance")
                      => last.result.value >= 0
               /\ (last.result.tag = "Ok" /\ last.op # "distance")
                      => last.result.value.raw # 0

C9_Witness ==
    /\ Did("parent")
    /\ Len(last.calls) = 1
    /\ last.calls[1].ret = 0
    /\ last.result = [tag |-> "Err", kind |-> "FailedConversion"]

(***************************************************************************)
(* C10: no operation carries state across calls.  What an operation        *)
(* returns is a function of the operation, its inputs and the engine's     *)
(* answers alone (PureResult, which reads no variable), whatever ran       *)
(* before it and whatever the caller holds; and a query leaves every Index *)
(* of the caller, the ones it was given included, as it was.               *)
(***************************************************************************)
Queries ==
    {"to_geo", "to_geo_boundary", "resolution", "base_cell", "is_pentagon",
     "is_res_class_3", "distance", "parent", "fmt"}

PureResult(op, args, calls) ==
    LET ret == calls[1].ret
        deg(x) == (x * RAD_TO_DEG + FScale \div 2) \div FScale
        degrees(g) == [lat |-> deg(g.lat), lon |-> deg(g.lon)]
    IN  CASE op = "none" -> [tag |-> "None"]
          [] op = "new" ->
                IF ret # 0
                THEN [tag |-> "Ok", value |-> [raw |-> args[1]]]
                ELSE [tag |-> "Err", kind |-> "InvalidIndex", value |-> args[1]]
          [] op = "from_str" ->
                IF calls # <<>> /\ ret # 0
                THEN [tag |-> "Ok", value |-> [raw |-> ret]]
                ELSE [tag |-> "Err", kind |-> "InvalidString", value |-> args[1]]
          [] op \in {"to_h3", "parent"} ->
                IF ret # 0
                THEN [tag |-> "Ok", value |-> [raw |-> ret]]
                ELSE [tag |-> "Err", kind |-> "FailedConversion"]
          [] op = "distance" ->
                IF ret >= 0
                THEN [tag |-> "Ok", value |-> ret]
                ELSE [tag |-> "Err", kind |-> "IncompatibleIndexes",
                      left |-> args[1], right |-> args[2]]
          [] op = "to_geo" -> degrees(ret)
          [] op = "to_geo_boundary" ->
                [tag |-> "Ok",
                 verts |-> [k \in 1 .. ret.num_verts |-> degrees(ret.verts[k - 1])]]
          [] op \in {"resolution", "base_cell"} -> ret
          [] op \in {"is_pentagon", "is_res_class_3"} -> ret # 0
          [] op = "fmt" ->
                IF SinkTakes(args[2], ExpectedText(ret))
                THEN [tag |-> "Ok", value |-> ExpectedText(ret)]
                ELSE [tag |-> "Err", kind |-> "fmt::Error"]

\* A step in which an operation ran to its return.
Ran == last'.op # last.op \/ (last'.args # last.args \/ last'.calls # last.calls)

C10_Stateless ==
    [][/\ last'.returned =>
              last'.result = PureResult(last'.op, last'.args, last'.calls)
       /\ (last'.op \in Queries /\ Ran) =>
              /\ held' = held
              /\ last'.args[1] \in held => last'.args[1] \in held'
      ]_vars

\* A query has run on an Index the caller owned before and still owns, and
\* returned another Index.
C10_Witness ==
    /\ Did("parent")
    /\ held = {last.args[1]}
    /\ last.result.tag = "Ok"
    /\ last.result.value # last.args[1]

====
